---- MODULE Spec2Model ----
(***************************************************************************)
(* Model of defi_nft_bot-1.py: the scan / filter / dedup pipeline of       *)
(* ProjectScanner, the two callers that run it (the scheduler job          *)
(* scheduled_scan and the handler scan_command), the other handlers        *)
(* (start_command, stats_command, button_callback) and send_project_alert. *)
(*                                                                         *)
(* Execution is asyncio: a coroutine runs without interruption from one    *)
(* `await` that suspends to the next, so every action below is one such    *)
(* stretch of code.  There are two tasks: "sched", the scheduler job, and  *)
(* "cmd", the handler the bot is currently running (the Application is     *)
(* built without concurrent updates, so handlers run one after another).   *)
(***************************************************************************)
EXTENDS Integers, Sequences, FiniteSets, TLC

\* ---------------------------------------------------------------- bounds
\* The short upstream listings have at most this many entries.
MaxShort == 2

\* ------------------------------------------------------ program constants
ScanCap == 20
ListingCap == 100
TwitterLimit == 200
TelegramLimit == 50
DescriptionCap == 500

\* ------------------------------------------------------------ data values
\* A JSON field of a response: absent from the object, null, or a value.
Missing == [k |-> "missing"]
Null == [k |-> "null"]
Val(v) == [k |-> "val", v |-> v]

\* dict.get(key, default): the default only replaces an absent key; a key
\* whose value is null yields None.
dict_get(field, default) == IF field.k = "missing" THEN default ELSE field

\* `x or 0` on a count: None and 0 are falsy.
or_zero(field) == IF field.k = "null" THEN 0 ELSE field.v

Min(a, b) == IF a < b THEN a ELSE b

\* s[:n]
Prefix(s, n) == SubSeq(s, 1, Min(n, Len(s)))

\* s[-n:] if len(s) > n else s
Suffix(s, n) == IF Len(s) > n THEN SubSeq(s, Len(s) - n + 1, Len(s)) ELSE s

\* Identifiers are strings; a string is a sequence of chunks, so that the
\* literal "details_" can occur inside an identifier.
\* IdD contains the literal "details_" that callback data is prefixed with.
IdA == <<"a">>
IdB == <<"b">>
IdD == <<"details_", "a">>
Ids == {IdA, IdB, IdD}

\* Chats that talk to the bot. USER_CHAT_ID = None is NoChat.
Chats == {1, 2}
NoChat == 0

Tasks == {"sched", "cmd"}

\* Text of a given length (the characters are numbered so that a prefix of
\* a text is recognisable).
Text(n) == [i \in 1..n |-> i % 7]
NoDescription == [i \in 1..24 |-> 9]

\* --------------------------------------------------------- upstream data
\* Responses of the listing endpoint: Null is a non-200 status or a
\* transport error, Val(l) a 200 response whose JSON is the listing l.
\* A listing entry is the coin's 'id'.
\* The upstream lists its coins in one order; a listing is a part of it.
RECURSIVE SubSeqs(_)
SubSeqs(s) ==
    IF s = <<>> THEN {<<>>}
    ELSE LET rest == SubSeqs(Tail(s))
         IN  rest \cup {<<Head(s)>> \o r : r \in rest}
\* The short listings of a catalogue, and those that repeat IdA.
ShortListings(catalogue) ==
    {l \in SubSeqs(catalogue) : Len(l) <= MaxShort}
    \cup {[i \in 1..n |-> IdA] : n \in 2..MaxShort}

\* 25 entries: the first 20 alternate IdA, IdB; the last five are IdD.
LongListing25 == [i \in 1..25 |-> IF i > 20 THEN IdD ELSE IF i % 2 = 1 THEN IdA ELSE IdB]
\* 105 entries: five IdD, then twenty IdA, then eighty IdB.
LongListing105 == [i \in 1..105 |-> IF i <= 5 THEN IdD ELSE IF i <= 25 THEN IdA ELSE IdB]
LongListings == {LongListing25, LongListing105}

\* Responses of the detail endpoint: Null is a non-200 status or a transport
\* error (get_coin_details returns None), Val(d) a 200 response with JSON d.
Community(tw, tg) == Val([twitter_followers |-> tw, telegram_channel_user_count |-> tg])
Description(en) == Val([en |-> en])
Detail(cd, desc, links, md, cat) ==
    Val([community_data |-> cd, description |-> desc, links |-> links,
         market_data |-> md, categories |-> cat])

TwitterCounts == {Missing, Null, Val(TwitterLimit - 1), Val(TwitterLimit)}
TelegramCounts == {Missing, Null, Val(TelegramLimit - 1), Val(TelegramLimit)}
CommunityValues ==
    {Missing, Null} \cup {Community(tw, tg) : tw \in TwitterCounts, tg \in TelegramCounts}
ShortText == Text(3)
LongText == Text(DescriptionCap + 100)
DescriptionValues ==
    {Missing, Null, Description(Missing), Description(Null),
     Description(Val(ShortText)), Description(Val(LongText))}
Present == Val("present")
FieldValues == {Missing, Null, Present}

\* The complete record, and the records that differ from it in one field.
FullDetail(cd) == Detail(cd, Description(Val(ShortText)), Present, Present, Present)
PartialDetails(cd) ==
    {Detail(cd, d, Present, Present, Present) : d \in DescriptionValues}
    \cup {Detail(cd, Description(Val(ShortText)), l, Present, Present) : l \in FieldValues}
    \cup {Detail(cd, Description(Val(ShortText)), Present, m, Present) : m \in FieldValues}
    \cup {Detail(cd, Description(Val(ShortText)), Present, Present, c) : c \in FieldValues}

DetailResponses ==
    {Null} \cup {FullDetail(cd) : cd \in CommunityValues}
           \cup PartialDetails(Community(Val(TwitterLimit - 1), Val(TelegramLimit - 1)))
           \cup PartialDetails(Community(Val(TwitterLimit), Null))

\* ------------------------------------------------------------------ state
\* A coroutine's locals are kept while it runs and cleared when it ends.
VARIABLES
    sent_projects,      \* the module-level set (line 30)
    USER_CHAT_ID,       \* the module-level recipient (line 27)
    pc,                 \* per task: the await it is suspended at, or "idle"
    upstream,           \* per task: the listing endpoint's response
    coins,              \* per task: scan_for_projects' local `coins`
    idx,                \* per task: position in coins[:20] of the loop
    outcome,            \* per task: what the last detail response led to
    twitter_followers,  \* per task: the local of that name
    telegram_users,     \* per task: the local of that name
    matching_projects,  \* per task: the local list of scan_for_projects
    projects,           \* per task: the caller's local `projects`
    k,                  \* per task: position in `projects` of the alert loop
    to,                 \* per task: chat_id of the send_message in flight
    chat,               \* update.effective_chat.id of the running start_command
                        \* or scan_command
    found,              \* the count in scan_command's "Found n" reply being
                        \* sent, else -1
    stats_message,      \* the count in the stats reply being sent, else -1
    project_id,         \* button_callback's local of that name
    callback_reply,     \* the text button_callback is editing in
    \* history (not program state)
    fetchedPos,         \* per task: positions of coins whose detail was requested
    matchPos,           \* per task: positions of coins appended to the result
    emitCount,          \* per identifier: times appended to a scan result
    absentA,            \* "open" once a detail response for IdA was absent,
                        \* "over" once a scan began after it with none running
    listed,             \* the listing the last step received: "error",
                        \* "empty" or "some"; "none" after any other step
    alerted,            \* identifiers of every send_message issued
    attempt             \* the alert attempt of the last step: "sent", "noop"
                        \* (send_project_alert returned without a recipient,
                        \* or scheduled_scan dropped a result), else "none"

vars == <<sent_projects, USER_CHAT_ID, pc, upstream, coins, idx, outcome,
          twitter_followers, telegram_users, matching_projects, projects, k, to,
          chat, stats_message, project_id, callback_reply,
          found, fetchedPos, matchPos, emitCount, absentA, listed, alerted,
          attempt>>

scanLocals == <<upstream, coins, idx, outcome, twitter_followers, telegram_users,
                matching_projects, fetchedPos, matchPos>>
callerLocals == <<projects, k, to, chat, found>>
handlerLocals == <<stats_message, project_id, callback_reply>>
history == <<emitCount, absentA>>

Init ==
    /\ sent_projects = {}
    /\ USER_CHAT_ID = NoChat
    /\ pc = [t \in Tasks |-> "idle"]
    /\ upstream = [t \in Tasks |-> Null]
    /\ coins = [t \in Tasks |-> <<>>]
    /\ idx = [t \in Tasks |-> 0]
    /\ outcome = [t \in Tasks |-> "none"]
    /\ twitter_followers = [t \in Tasks |-> 0]
    /\ telegram_users = [t \in Tasks |-> 0]
    /\ matching_projects = [t \in Tasks |-> <<>>]
    /\ projects = [t \in Tasks |-> <<>>]
    /\ k = [t \in Tasks |-> 0]
    /\ to = [t \in Tasks |-> NoChat]
    /\ chat = NoChat
    /\ found = -1
    /\ stats_message = -1
    /\ project_id = <<>>
    /\ callback_reply = "none"
    /\ fetchedPos = [t \in Tasks |-> {}]
    /\ matchPos = [t \in Tasks |-> <<>>]
    /\ emitCount = [i \in Ids |-> 0]
    /\ absentA = "no"
    /\ listed = "none"
    /\ alerted = {}
    /\ attempt = "none"

\* ------------------------------------------------- ProjectScanner (pure)
\* (mutant) an error yields a placeholder entry instead of [].
get_new_coins_Fallback(response) ==
    IF response.k = "null" THEN <<IdA>> ELSE Suffix(response.v, ListingCap)

\* get_new_coins: [] on an error, else the last 100 entries of the listing.
get_new_coins(response) ==
    IF response.k = "null" THEN <<>> ELSE Suffix(response.v, ListingCap)

\* (mutant) the loop iterates over all of coins.
Candidates_All(cs) == cs

\* The sequence the loop iterates over: coins[:20].
Candidates(cs) == Prefix(cs, ScanCap)

\* (mutant) the dedup check is missing.
AlreadySent_Never(coin_id, sent) == FALSE

\* `if coin_id in sent_projects: continue`
AlreadySent(coin_id, sent) == coin_id \in sent

\* The loop from position `from` on, up to its next await: the position of
\* the first candidate that is not skipped, 0 when the loop ends.
NextCandidate(cs, from, sent) ==
    LET open == {j \in from..Len(Candidates(cs)) : ~AlreadySent(cs[j], sent)}
    IN  IF open = {} THEN 0 ELSE CHOOSE j \in open : \A i \in open : j <= i

\* details.get('community_data', {}), then the two counts with `or 0`.
EmptyCommunity == Community(Missing, Missing)
community_of(d) == dict_get(d.community_data, EmptyCommunity)
twitter_of(d) == or_zero(dict_get(community_of(d).v.twitter_followers, Val(0)))
telegram_of(d) == or_zero(dict_get(community_of(d).v.telegram_channel_user_count, Val(0)))

\* (mutant) the Telegram bound is not strict.
Matches_NonStrict(tw, tg) == tw < TwitterLimit /\ tg <= TelegramLimit

\* `if twitter_followers < 200 and telegram_users < 50`
Matches(tw, tg) == tw < TwitterLimit /\ tg < TelegramLimit

\* community_data.get(...) on None raises AttributeError (line 109).
RaisesBeforeFilter(d) == community_of(d).k = "null"

\* Building project_info raises when description, description.en, links or
\* market_data is null (lines 118, 121, 127): .get or [:500] on None.
description_of(d) == dict_get(d.description, Description(Missing))
en_of(d) == dict_get(description_of(d).v.en, Val(NoDescription))
RaisesInRecord(d) ==
    \/ description_of(d).k = "null"
    \/ en_of(d).k = "null"
    \/ dict_get(d.links, Present).k = "null"
    \/ dict_get(d.market_data, Present).k = "null"

\* (mutant) the description is stored whole.
Truncated_Whole(text) == text

\* ...[:500]
Truncated(text) == Prefix(text, DescriptionCap)

project_info(coin_id, d) ==
    [id |-> coin_id,
     description |-> Truncated(en_of(d).v),
     twitter_followers |-> twitter_of(d),
     telegram_users |-> telegram_of(d)]

\* What one detail response leads to in the loop body (lines 102-131).
Outcome(response) ==
    IF response.k = "null" THEN "absent"
    ELSE IF RaisesBeforeFilter(response.v) THEN "raised"
    ELSE IF ~Matches(twitter_of(response.v), telegram_of(response.v)) THEN "nomatch"
    ELSE IF RaisesInRecord(response.v) THEN "raised"
    ELSE "match"

\* (mutants) the identifier is never marked; it is marked whatever the
\* filter says; it is marked when its detail is absent.
SentAfter_Forget(out, sent, coin_id) == sent
SentAfter_AddAlways(out, sent, coin_id) ==
    IF out \in {"match", "nomatch"} THEN sent \cup {coin_id} ELSE sent
SentAfter_AddAbsent(out, sent, coin_id) ==
    IF out \in {"match", "absent"} THEN sent \cup {coin_id} ELSE sent

\* sent_projects after the loop body: sent_projects.add(coin_id) on a match.
SentAfter(out, sent, coin_id) == IF out = "match" THEN sent \cup {coin_id} ELSE sent

\* matching_projects after the loop body: append(project_info) on a match.
ResultAfter(out, mp, info) == IF out = "match" THEN Append(mp, info) ELSE mp

\* (mutant) the reply counts one more than the set holds.
StatsCount_OffByOne(sent) == Cardinality(sent) + 1

\* len(sent_projects) in the stats reply.
StatsCount(sent) == Cardinality(sent)

\* (mutant) the recipient is not checked.
HasRecipient_Always(chat_id) == TRUE

\* `if not USER_CHAT_ID: return` and `if projects and USER_CHAT_ID`
HasRecipient(chat_id) == chat_id # NoChat

\* (mutant) only the first start command registers its chat.
Registered_FirstOnly(old, c) == IF old = NoChat THEN c ELSE old

\* USER_CHAT_ID = update.effective_chat.id
Registered(old, c) == c

\* (mutant) the reply counts one project too few.
FoundCount_OffByOne(ps) == Len(ps) - 1

\* len(projects) in the "Found n new project(s)" reply.
FoundCount(ps) == Len(ps)

\* callback_data=f"details_{project['id']}" and query.data.replace('details_', '')
callback_data(coin_id) == <<"details_">> \o coin_id
replace_details(data) == SelectSeq(data, LAMBDA c : c # "details_")

\* ---------------------------------------------------------------- actions
\* The locals of scan_for_projects in task t.
SetScan(t, up, cs, i, out, tw, tg, mp, fp, mpos) ==
    /\ upstream' = [upstream EXCEPT ![t] = up]
    /\ coins' = [coins EXCEPT ![t] = cs]
    /\ idx' = [idx EXCEPT ![t] = i]
    /\ outcome' = [outcome EXCEPT ![t] = out]
    /\ twitter_followers' = [twitter_followers EXCEPT ![t] = tw]
    /\ telegram_users' = [telegram_users EXCEPT ![t] = tg]
    /\ matching_projects' = [matching_projects EXCEPT ![t] = mp]
    /\ fetchedPos' = [fetchedPos EXCEPT ![t] = fp]
    /\ matchPos' = [matchPos EXCEPT ![t] = mpos]

ClearScan(t) == SetScan(t, Null, <<>>, 0, "none", 0, 0, <<>>, {}, <<>>)

\* Task t suspends at an await of scan_for_projects.
Suspend(t, at) ==
    /\ pc' = [pc EXCEPT ![t] = at]
    /\ attempt' = "none"
    /\ UNCHANGED <<callerLocals, alerted>>

\* The caller ends.
Finish(t) ==
    /\ pc' = [pc EXCEPT ![t] = "idle"]
    /\ projects' = [projects EXCEPT ![t] = <<>>]
    /\ k' = [k EXCEPT ![t] = 0]
    /\ to' = [to EXCEPT ![t] = NoChat]
    /\ chat' = IF t = "cmd" THEN NoChat ELSE chat
    /\ found' = IF t = "cmd" THEN -1 ELSE found
    /\ UNCHANGED alerted

\* send_project_alert for ps[n], ps[n+1], ... up to the first send_message
\* that suspends: without a recipient every call returns at once.
AlertLoop(t, ps, n) ==
    IF n > Len(ps)
    THEN Finish(t) /\ attempt' = "none"
    ELSE IF ~HasRecipient(USER_CHAT_ID)
    THEN Finish(t) /\ attempt' = "noop"
    ELSE /\ pc' = [pc EXCEPT ![t] = "send_message"]
         /\ projects' = [projects EXCEPT ![t] = ps]
         /\ k' = [k EXCEPT ![t] = n]
         /\ to' = [to EXCEPT ![t] = USER_CHAT_ID]
         /\ alerted' = alerted \cup {ps[n].id}
         /\ found' = IF t = "cmd" THEN -1 ELSE found
         /\ attempt' = "sent"
         /\ UNCHANGED chat

\* scan_for_projects returns mp: the caller's code up to its next await.
\* scheduled_scan alerts `if projects and USER_CHAT_ID`; scan_command
\* replies with the count or with "No new projects found".
Return(t, mp) ==
    IF t = "sched"
    THEN IF mp # <<>> /\ HasRecipient(USER_CHAT_ID)
         THEN AlertLoop(t, mp, 1)
         ELSE Finish(t) /\ attempt' = IF mp # <<>> THEN "noop" ELSE "none"
    ELSE /\ pc' = [pc EXCEPT ![t] = IF mp # <<>> THEN "reply_found" ELSE "reply_none"]
         /\ projects' = [projects EXCEPT ![t] = mp]
         /\ found' = IF mp # <<>> THEN FoundCount(mp) ELSE -1
         /\ attempt' = "none"
         /\ UNCHANGED <<k, to, chat, alerted>>

\* The loop of scan_for_projects from position `from` to its next await:
\* the detail request of the next candidate not skipped, or the return.
Continue(t, up, cs, from, out) ==
    LET j == NextCandidate(cs, from, sent_projects)
    IN  IF j # 0
        THEN /\ SetScan(t, up, cs, j, out, 0, 0, matching_projects[t],
                        fetchedPos[t] \cup {j}, matchPos[t])
             /\ Suspend(t, "get_coin_details")
        ELSE /\ ClearScan(t)
             /\ Return(t, matching_projects[t])

\* A caller enters scan_for_projects and suspends in get_new_coins.
Scanning(t) == pc[t] \in {"get_new_coins", "get_coin_details", "sleep"}

BeginScan(t) ==
    /\ pc[t] = "idle"
    /\ pc' = [pc EXCEPT ![t] = "get_new_coins"]
    /\ absentA' = IF absentA = "open" /\ \A u \in Tasks : ~Scanning(u)
                  THEN "over" ELSE absentA
    /\ listed' = "none"
    /\ attempt' = "none"
    /\ UNCHANGED <<sent_projects, USER_CHAT_ID, scanLocals, projects, k, to, found,
                   handlerLocals, emitCount, alerted>>

\* The scheduler runs scheduled_scan (at start-up and every hour).
ScheduledScan ==
    /\ BeginScan("sched")
    /\ UNCHANGED chat

\* scan_command: the "Starting manual scan" reply, then the scan.
ScanCommand ==
    \E c \in Chats :
        /\ BeginScan("cmd")
        /\ chat' = c

\* get_new_coins returns one of `responses`; the loop runs to its first await.
ListReturn(t, responses) ==
    /\ pc[t] = "get_new_coins"
    /\ \E r \in responses :
        /\ listed' = IF r.k = "null" THEN "error"
                     ELSE IF r.v = <<>> THEN "empty" ELSE "some"
        /\ Continue(t, r, get_new_coins(r), 1, "none")
    /\ UNCHANGED <<sent_projects, USER_CHAT_ID, history, handlerLocals>>

\* get_coin_details returns one of `responses`; the loop body runs to the
\* pacing sleep, to the next detail request (after `continue`), to the
\* return, or raises.
DetailReturn(t, responses) ==
    /\ pc[t] = "get_coin_details"
    /\ \E r \in responses :
        LET coin_id == coins[t][idx[t]]
            out == Outcome(r)
        IN  /\ sent_projects' = SentAfter(out, sent_projects, coin_id)
            /\ emitCount' = [emitCount EXCEPT ![coin_id] =
                                IF out = "match" THEN @ + 1 ELSE @]
            /\ absentA' = IF out = "absent" /\ coin_id = IdA /\ absentA = "no"
                          THEN "open" ELSE absentA
            /\ CASE out \in {"match", "nomatch"} ->
                      /\ SetScan(t, upstream[t], coins[t], idx[t], out,
                                 twitter_of(r.v), telegram_of(r.v),
                                 ResultAfter(out, matching_projects[t],
                                             project_info(coin_id, r.v)),
                                 fetchedPos[t],
                                 IF out = "match" THEN Append(matchPos[t], idx[t])
                                 ELSE matchPos[t])
                      /\ Suspend(t, "sleep")
                 [] out = "absent" ->
                      Continue(t, upstream[t], coins[t], idx[t] + 1, "absent")
                 [] out = "raised" ->
                      \* the exception leaves the scan and its caller
                      /\ ClearScan(t)
                      /\ Suspend(t, "raised")
    /\ listed' = "none"
    /\ UNCHANGED <<USER_CHAT_ID, handlerLocals>>

\* asyncio.sleep(1.5) returns; the loop goes on.
SleepDone(t) ==
    /\ pc[t] = "sleep"
    /\ Continue(t, upstream[t], coins[t], idx[t] + 1, "none")
    /\ listed' = "none"
    /\ UNCHANGED <<sent_projects, USER_CHAT_ID, history, handlerLocals>>

\* The exception of a scan has reached the scheduler's or the bot's error
\* log; the caller is gone.
ErrorLogged(t) ==
    /\ pc[t] = "raised"
    /\ Finish(t)
    /\ attempt' = "none"
    /\ listed' = "none"
    /\ UNCHANGED <<sent_projects, USER_CHAT_ID, scanLocals, history, handlerLocals>>

\* scan_command: the "Found n new project(s)" reply is sent; the alerts start.
FoundReplied ==
    /\ pc["cmd"] = "reply_found"
    /\ AlertLoop("cmd", projects["cmd"], 1)
    /\ listed' = "none"
    /\ UNCHANGED <<sent_projects, USER_CHAT_ID, scanLocals, history, handlerLocals>>

\* scan_command: the "No new projects found" reply is sent.
NoneReplied ==
    /\ pc["cmd"] = "reply_none"
    /\ Finish("cmd")
    /\ attempt' = "none"
    /\ listed' = "none"
    /\ UNCHANGED <<sent_projects, USER_CHAT_ID, scanLocals, history, handlerLocals>>

\* send_message returns; the caller's loop sends the next alert.
AlertSent(t) ==
    /\ pc[t] = "send_message"
    /\ AlertLoop(t, projects[t], k[t] + 1)
    /\ listed' = "none"
    /\ UNCHANGED <<sent_projects, USER_CHAT_ID, scanLocals, history, handlerLocals>>

\* start_command: registers the calling chat, then replies.
StartCommand ==
    /\ pc["cmd"] = "idle"
    /\ \E c \in Chats :
        /\ chat' = c
        /\ USER_CHAT_ID' = Registered(USER_CHAT_ID, c)
    /\ pc' = [pc EXCEPT !["cmd"] = "reply"]
    /\ listed' = "none"
    /\ attempt' = "none"
    /\ UNCHANGED <<sent_projects, scanLocals, projects, k, to, found, history,
                   alerted, handlerLocals>>

\* stats_command: formats len(sent_projects), then replies.
StatsCommand ==
    /\ pc["cmd"] = "idle"
    /\ stats_message' = StatsCount(sent_projects)
    /\ pc' = [pc EXCEPT !["cmd"] = "reply"]
    /\ listed' = "none"
    /\ attempt' = "none"
    /\ UNCHANGED <<sent_projects, USER_CHAT_ID, scanLocals, callerLocals, history,
                   alerted, project_id, callback_reply>>

\* reply_text of start_command or stats_command returns.
Replied ==
    /\ pc["cmd"] = "reply"
    /\ pc' = [pc EXCEPT !["cmd"] = "idle"]
    /\ stats_message' = -1
    /\ chat' = NoChat
    /\ listed' = "none"
    /\ attempt' = "none"
    /\ UNCHANGED <<sent_projects, USER_CHAT_ID, scanLocals, projects, k, to, found,
                   history, alerted, project_id, callback_reply>>

\* button_callback: a "Full Details" button of an alert is pressed.
ButtonCallback ==
    /\ pc["cmd"] = "idle"
    /\ \E a \in alerted : project_id' = replace_details(callback_data(a))
    /\ pc' = [pc EXCEPT !["cmd"] = "callback_details"]
    /\ listed' = "none"
    /\ attempt' = "none"
    /\ UNCHANGED <<sent_projects, USER_CHAT_ID, scanLocals, callerLocals, history,
                   alerted, stats_message, callback_reply>>

\* button_callback: get_coin_details returns one of `responses`; the record
\* is rebuilt and edit_message_text is awaited, or the rebuilding raises.
CallbackReturn(responses) ==
    /\ pc["cmd"] = "callback_details"
    /\ \E r \in responses :
        IF r.k = "val" /\ (RaisesBeforeFilter(r.v) \/ RaisesInRecord(r.v))
        THEN /\ pc' = [pc EXCEPT !["cmd"] = "idle"]
             /\ project_id' = <<>>
             /\ UNCHANGED callback_reply
        ELSE /\ pc' = [pc EXCEPT !["cmd"] = "callback_edit"]
             /\ callback_reply' = IF r.k = "null" THEN "sorry" ELSE "full"
             /\ UNCHANGED project_id
    /\ listed' = "none"
    /\ attempt' = "none"
    /\ UNCHANGED <<sent_projects, USER_CHAT_ID, scanLocals, callerLocals, history,
                   alerted, stats_message>>

\* button_callback: edit_message_text returns.
CallbackEdited ==
    /\ pc["cmd"] = "callback_edit"
    /\ pc' = [pc EXCEPT !["cmd"] = "idle"]
    /\ project_id' = <<>>
    /\ callback_reply' = "none"
    /\ listed' = "none"
    /\ attempt' = "none"
    /\ UNCHANGED <<sent_projects, USER_CHAT_ID, scanLocals, callerLocals, history,
                   alerted, stats_message>>

\* ---------------------------------------------------------- specifications
ListingResponses(listings) == {Null} \cup {Val(l) : l \in listings}

\* Spec: both tasks and every handler, on the short listings of two coins.
\* The detail responses are the absent one, one that raises, a complete
\* record that matches and one that does not.
CoreResponses ==
    {Null, FullDetail(Null),
     FullDetail(Community(Val(TwitterLimit - 1), Val(TelegramLimit - 1))),
     FullDetail(Community(Val(TwitterLimit - 1), Val(TelegramLimit)))}
CoreListings == ListingResponses(ShortListings(<<IdA, IdB>>))

Handlers ==
    \/ FoundReplied
    \/ NoneReplied
    \/ StartCommand
    \/ StatsCommand
    \/ Replied
    \/ ButtonCallback
    \/ CallbackEdited

Next ==
    \/ ScheduledScan
    \/ ScanCommand
    \/ \E t \in Tasks : ListReturn(t, CoreListings)
    \/ \E t \in Tasks : DetailReturn(t, CoreResponses)
    \/ \E t \in Tasks : SleepDone(t)
    \/ \E t \in Tasks : ErrorLogged(t)
    \/ \E t \in Tasks : AlertSent(t)
    \/ CallbackReturn(CoreResponses)
    \/ Handlers

Spec == Init /\ [][Next]_vars

\* SpecSeq: scans that do not overlap in time (a caller begins its scan only
\* while the other task is idle), on the short listings of three coins and
\* on every detail response.
AllListings == ListingResponses(ShortListings(<<IdA, IdB, IdD>>))

NextSeq ==
    \/ ScheduledScan /\ pc["cmd"] = "idle"
    \/ ScanCommand /\ pc["sched"] = "idle"
    \/ \E t \in Tasks : ListReturn(t, AllListings)
    \/ \E t \in Tasks : DetailReturn(t, DetailResponses)
    \/ \E t \in Tasks : SleepDone(t)
    \/ \E t \in Tasks : ErrorLogged(t)
    \/ \E t \in Tasks : AlertSent(t)
    \/ CallbackReturn(DetailResponses)
    \/ Handlers

SpecSeq == Init /\ [][NextSeq]_vars

\* SpecLong: the scheduler's scans alone, on the long listings.
NextLong ==
    \/ ScheduledScan
    \/ ListReturn("sched", ListingResponses(LongListings))
    \/ DetailReturn("sched", CoreResponses)
    \/ SleepDone("sched")
    \/ ErrorLogged("sched")
    \/ AlertSent("sched")
    \/ StartCommand
    \/ Replied

SpecLong == Init /\ [][NextLong]_vars

\* ------------------------------------------------------------------ claims
IdsOf(ps) == {ps[i].id : i \in 1..Len(ps)}
Range(f) == {f[i] : i \in DOMAIN f}
Quiet == \A t \in Tasks : pc[t] = "idle"

\* Task t requests a detail in this step.
IssuesFetch(t) ==
    /\ pc'[t] = "get_coin_details"
    /\ pc[t] # "get_coin_details" \/ idx'[t] # idx[t]

\* C1: a candidate whose identifier is in sent_projects when the loop
\* considers it is not fetched and is not put in the result: every detail
\* request is for an identifier that is not in sent_projects at that moment,
\* and every entry of the result comes from a position that was requested.
C1_DedupSkips ==
    [][\A t \in Tasks :
        /\ IssuesFetch(t) => coins'[t][idx'[t]] \notin sent_projects
        /\ Range(matchPos'[t]) \subseteq fetchedPos'[t]]_vars

\* A scan is past a candidate that it skipped because it was in sent_projects.
C1_Witness ==
    \E t \in Tasks :
        /\ pc[t] = "get_coin_details"
        /\ \E j \in 1..(idx[t] - 1) :
            j \notin fetchedPos[t] /\ coins[t][j] \in sent_projects

\* C2: a fetched candidate is emitted and marked exactly when
\* twitter_followers < 200 and telegram_users < 50: (199, 49) matches,
\* (199, 50) and (200, anything) do not, and a candidate that fails a bound
\* is neither appended to the result nor added to sent_projects.
C2_FilterPoints ==
    /\ Matches(199, 49) /\ Matches(0, 0)
    /\ ~Matches(199, 50) /\ ~Matches(200, 49)
    /\ \A g \in {0, 49, 50, 51} : ~Matches(200, g) /\ ~Matches(201, g)
    /\ \A w \in {0, 199, 200, 201} : ~Matches(w, 50) /\ ~Matches(w, 51)

C2_StrictConjunction ==
    [][/\ C2_FilterPoints
       /\ \A t \in Tasks :
            pc[t] = "get_coin_details" /\ pc'[t] = "sleep" =>
                LET coin_id == coins[t][idx[t]]
                IN  IF twitter_followers'[t] < 200 /\ telegram_users'[t] < 50
                    THEN /\ Len(matching_projects'[t]) = Len(matching_projects[t]) + 1
                         /\ matching_projects'[t][Len(matching_projects'[t])].id = coin_id
                         /\ sent_projects' = sent_projects \cup {coin_id}
                    ELSE /\ matching_projects'[t] = matching_projects[t]
                         /\ sent_projects' = sent_projects]_vars

\* The candidate with counts (199, 50) has been filtered out.
C2_Witness ==
    \E t \in Tasks :
        /\ pc[t] = "sleep"
        /\ twitter_followers[t] = 199 /\ telegram_users[t] = 50
        /\ idx[t] \notin Range(matchPos[t])
        /\ coins[t][idx[t]] \notin sent_projects

\* C3: when scans do not overlap, no identifier is appended to a scan
\* result more than once, over all scans and all positions of a listing.
C3_ReportedOnce == \A i \in Ids : emitCount[i] <= 1

\* A scan has skipped a candidate that an earlier scan reported.
C3_Witness ==
    \E t \in Tasks :
        /\ pc[t] \in {"get_coin_details", "sleep"}
        /\ \E j \in 1..(idx[t] - 1) :
            /\ j \notin fetchedPos[t]
            /\ emitCount[coins[t][j]] = 1
            /\ coins[t][j] \notin IdsOf(matching_projects[t])

\* C4: sent_projects only grows, and it changes only in the step in which a
\* scan has received the detail of its candidate and the filter holds: that
\* candidate's identifier is what is added.
C4_OnlyGrows ==
    [][/\ sent_projects \subseteq sent_projects'
       /\ sent_projects' # sent_projects =>
            \E t \in Tasks :
                /\ pc[t] = "get_coin_details" /\ pc'[t] = "sleep"
                /\ twitter_followers'[t] < 200 /\ telegram_users'[t] < 50
                /\ sent_projects' = sent_projects \cup {coins[t][idx[t]]}]_vars

\* Both coins are marked and the expand-details callback has run.
C4_Witness ==
    /\ Cardinality(sent_projects) = 2
    /\ pc["cmd"] = "callback_edit"
    /\ USER_CHAT_ID # NoChat

\* Task t receives an absent detail in this step.
AbsentStep(t) ==
    /\ pc[t] = "get_coin_details"
    /\ \/ pc'[t] \notin {"get_coin_details", "sleep", "raised"}
       \/ pc'[t] = "get_coin_details" /\ idx'[t] # idx[t]

\* C5: an absent detail leaves sent_projects and the result as they were,
\* and the scan goes on with the next candidate that is not in
\* sent_projects; a scan never passes over a candidate that is not in
\* sent_projects, so the identifier is requested again by a later scan.
C5_AbsentSkipped ==
    [][\A t \in Tasks :
        /\ AbsentStep(t) =>
            LET later == {j \in (idx[t] + 1)..Len(coins[t]) :
                            j <= 20 /\ coins[t][j] \notin sent_projects}
            IN  /\ sent_projects' = sent_projects
                /\ emitCount' = emitCount
                /\ pc'[t] = "get_coin_details" => matching_projects'[t] = matching_projects[t]
                /\ pc'[t] \in {"reply_found", "reply_none", "send_message"} =>
                        projects'[t] = matching_projects[t]
                /\ IF later = {}
                   THEN pc'[t] # "get_coin_details"
                   ELSE /\ pc'[t] = "get_coin_details"
                        /\ idx'[t] \in later
                        /\ \A j \in later : idx'[t] <= j
        /\ IssuesFetch(t) =>
            \A j \in 1..(idx'[t] - 1) :
                j \notin fetchedPos'[t] => coins'[t][j] \in sent_projects]_vars

\* The detail of IdA was absent in an earlier scan and a scan that began
\* after it requests IdA again.
C5_Witness ==
    /\ absentA = "over"
    /\ \E t \in Tasks : pc[t] = "get_coin_details" /\ coins[t][idx[t]] = IdA

\* C6 (as claimed): once every task is idle, every identifier of
\* sent_projects has been sent as an alert.
C6_MarkedWereAlerted == Quiet => sent_projects \subseteq alerted

\* C7: a scan requests details only at the first min(20, n) positions of
\* its listing, in listing order, at most 20 of them, and its result holds
\* the matches in listing order.
C7_FirstTwenty ==
    \A t \in Tasks :
        /\ fetchedPos[t] \subseteq 1..20
        /\ fetchedPos[t] \subseteq 1..Len(coins[t])
        /\ Cardinality(fetchedPos[t]) <= 20
        /\ \A j \in fetchedPos[t] : j <= idx[t]
        /\ Len(matchPos[t]) = Len(matching_projects[t])
        /\ \A i \in 1..Len(matchPos[t]) :
            /\ matching_projects[t][i].id = coins[t][matchPos[t][i]]
            /\ i > 1 => matchPos[t][i - 1] < matchPos[t][i]

\* A scan of a listing of 25 has requested the details of 20 positions.
C7_Witness ==
    \E t \in Tasks : Len(coins[t]) = 25 /\ Cardinality(fetchedPos[t]) = 20

\* C8: every identifier of a scan's result is in sent_projects while the
\* result is built, when it is returned and when an alert is sent.
C8_MarkedBeforeReturn ==
    /\ \A t \in Tasks :
        /\ IdsOf(matching_projects[t]) \subseteq sent_projects
        /\ IdsOf(projects[t]) \subseteq sent_projects
    /\ alerted \subseteq sent_projects

\* A scan has returned a result and no alert has been sent for it yet.
C8_Witness ==
    /\ pc["cmd"] = "reply_found"
    /\ projects["cmd"] # <<>>
    /\ alerted = {}

C10_EmptyListing ==
    [][\A t \in Tasks :
        pc[t] = "get_new_coins" /\ pc'[t] # "get_new_coins"
        /\ listed' \in {"error", "empty"} =>
            /\ pc'[t] = (IF t = "cmd" THEN "reply_none" ELSE "idle")
            /\ projects'[t] = <<>>
            /\ fetchedPos'[t] = {}
            /\ sent_projects' = sent_projects]_vars

\* The listing of a scan command failed and the command reports no project.
C10_Witness ==
    /\ listed = "error"
    /\ pc["cmd"] = "reply_none"

\* C11: while no recipient is registered no message is sent to any chat: no
\* task is in send_message, no alert was ever issued, and an alert attempt
\* made without a recipient ends its caller without an exception; an alert
\* is sent only with a recipient registered.
C11_NoRecipientNoop ==
    [][/\ USER_CHAT_ID' = NoChat =>
            /\ alerted' = {}
            /\ \A t \in Tasks : pc'[t] # "send_message" /\ to'[t] = NoChat
       /\ attempt' = "noop" =>
            /\ USER_CHAT_ID = NoChat
            /\ alerted' = alerted
            /\ \A t \in Tasks : pc'[t] = "raised" => pc[t] = "raised"
            /\ \E t \in Tasks : pc[t] # "idle" /\ pc'[t] = "idle"
       /\ attempt' = "sent" => USER_CHAT_ID # NoChat]_vars

\* A scan command found a project and its alert attempt returned without a
\* recipient.
C11_Witness ==
    /\ attempt = "noop"
    /\ USER_CHAT_ID = NoChat
    /\ sent_projects # {}
    /\ alerted = {}
    /\ pc["cmd"] = "idle"
    /\ pc["sched"] = "get_new_coins"

\* C12 (as claimed): whatever fields of a detail record are missing or
\* null, the scan completes the candidate and never raises.
C12_NeverRaises == \A t \in Tasks : pc[t] # "raised"

\* Task t issues a send_message in this step.
IssuesSend(t) ==
    /\ pc'[t] = "send_message"
    /\ pc[t] # "send_message" \/ k'[t] # k[t]

\* The step is the first stretch of start_command.
StartStep == pc["cmd"] = "idle" /\ pc'["cmd"] = "reply" /\ chat' # NoChat

\* C13: USER_CHAT_ID is unset or one chat; every start command sets it to
\* the chat that issued the command and no other step changes it; every
\* alert goes to the recipient registered when it is sent, whichever chat
\* issued the scan command.
C13_SingleRecipient ==
    [][/\ USER_CHAT_ID' \in Chats \cup {NoChat}
       /\ StartStep => USER_CHAT_ID' = chat'
       /\ USER_CHAT_ID' # USER_CHAT_ID => StartStep
       /\ \A t \in Tasks :
            IssuesSend(t) => to'[t] = USER_CHAT_ID /\ to'[t] \in Chats]_vars

\* A scan command issued by one chat sends its alert to the other chat,
\* which is the registered recipient.
C13_Witness ==
    /\ pc["cmd"] = "send_message"
    /\ chat \in Chats
    /\ to["cmd"] \in Chats
    /\ to["cmd"] # chat

\* The scan of task t returns to its caller in this step.
ScanReturns(t) ==
    /\ Scanning(t)
    /\ pc'[t] \notin {"get_new_coins", "get_coin_details", "sleep", "raised"}

Described(text) ==
    Detail(Community(Val(0), Val(0)), Description(Val(text)), Present, Present,
           Present).v

C15_Lengths ==
    /\ Truncated(Text(600)) = Text(500)
    /\ Truncated(Text(501)) = Text(500)
    /\ Truncated(Text(500)) = Text(500)
    /\ Truncated(Text(499)) = Text(499)
    /\ Truncated(Text(3)) = Text(3)
    /\ Truncated(<<>>) = <<>>
    /\ project_info(IdA, Described(Text(600))).description = Text(500)
    /\ project_info(IdA, Described(Text(3))).description = Text(3)

\* C15: the description of a match record is the first min(500, length)
\* characters of the detail's description: 600 characters give the first
\* 500, 501 give 500, 500 and fewer are kept unchanged; and the record a
\* scan appends holds the short description whole, the first 500
\* characters of the long one, or the default text.
C15_DescriptionCap ==
    [][/\ C15_Lengths
       /\ \A t \in Tasks :
            Len(matching_projects'[t]) > Len(matching_projects[t]) =>
                LET d == matching_projects'[t][Len(matching_projects'[t])].description
                IN  /\ Len(d) <= 500
                    /\ d \in {ShortText, NoDescription, SubSeq(LongText, 1, 500)}]_vars

\* A scan has appended the record of a coin whose description has 600
\* characters: the record holds 500.
C15_Witness ==
    \E t \in Tasks :
        /\ pc[t] = "sleep"
        /\ matching_projects[t] # <<>>
        /\ Len(matching_projects[t][Len(matching_projects[t])].description) = 500

\* C16: with the two scans interleaved an identifier is appended to at most
\* two results (one per task), and however often it was appended the set
\* holds it once: sent_projects has exactly the identifiers appended at
\* least once. The double alert itself is the state C16_Witness.
C16_OverlapDoubleEmit ==
    /\ \A i \in Ids :
        /\ emitCount[i] <= Cardinality(Tasks)
        /\ emitCount[i] > 0 <=> i \in sent_projects
    /\ StatsCount(sent_projects) = Cardinality({i \in Ids : emitCount[i] > 0})

\* Both tasks are sending an alert for the same identifier, which both
\* appended to their results, and sent_projects holds it once.
C16_Witness ==
    /\ pc["sched"] = "send_message"
    /\ pc["cmd"] = "send_message"
    /\ projects["sched"][k["sched"]].id = projects["cmd"][k["cmd"]].id
    /\ emitCount[projects["cmd"][k["cmd"]].id] = 2
    /\ sent_projects = {projects["cmd"][k["cmd"]].id}

\* C17 (as claimed): a scan that has requested a detail requests the next
\* one only from the pacing sleep.
C17_PacedFetches ==
    [][\A t \in Tasks :
        IssuesFetch(t) /\ fetchedPos[t] # {} => pc[t] = "sleep"]_vars

\* C18 (as claimed): a scan that has added identifiers to sent_projects
\* hands the result that holds them to its caller: it does not end by an
\* exception that drops them.
C18_NoResultDiscarded ==
    [][\A t \in Tasks :
        Scanning(t) /\ pc'[t] = "raised" => matching_projects[t] = <<>>]_vars

\* C19 (as claimed): every detail a scan requests is for one of the last
\* min(20, n) entries of the upstream listing of n entries.
C19_NewestTwenty ==
    \A t \in Tasks :
        upstream[t].k = "val" =>
            LET n == Len(upstream[t].v)
                cut == n - Len(coins[t])
            IN  \A j \in fetchedPos[t] : j + cut > n - 20

\* The task "cmd" is in button_callback.
InCallback(at) == at \in {"callback_details", "callback_edit"}

\* C20 (as claimed): the steps of button_callback and of stats_command
\* leave sent_projects and USER_CHAT_ID as they were; button_callback
\* requests the detail of the identifier of the alert whose button was
\* pressed, once, and when the response is in it edits the message to the
\* full record or, for an absent detail, to the failure text.
C20_ReadOnlyHandlers ==
    [][/\ pc'["cmd"] # pc["cmd"]
          /\ (InCallback(pc["cmd"]) \/ InCallback(pc'["cmd"])
              \/ stats_message # -1 \/ stats_message' # -1) =>
            /\ sent_projects' = sent_projects
            /\ USER_CHAT_ID' = USER_CHAT_ID
       /\ pc'["cmd"] = "callback_details" /\ pc["cmd"] # "callback_details" =>
            /\ pc["cmd"] = "idle"
            /\ project_id' \in alerted
       /\ pc["cmd"] = "callback_details" /\ pc'["cmd"] # "callback_details" =>
            /\ pc'["cmd"] = "callback_edit"
            /\ callback_reply' \in {"full", "sorry"}
       /\ pc["cmd"] = "callback_edit" => pc'["cmd"] \in {"callback_edit", "idle"}]_vars

====
